---- MODULE Spec2Model ----
(***************************************************************************)
(* Mentor-fellow matching of the SNU Connectome Fellows Program:           *)
(* src/src/core/mentor/matcher.py (MentorMatcher) over the records of       *)
(* src/src/core/mentor/models.py and src/src/core/fellow/models.py.         *)
(*                                                                         *)
(* Scores are Python floats in the source.  The model keeps them as exact  *)
(* rationals: every score is an integer number of 1/Scale points, so       *)
(* 2.5 is (5 * Scale) \div 2 and 40 * k / n is (40 * Scale * k) \div n,    *)
(* both exact because n divides Scale.                                     *)
(***************************************************************************)
EXTENDS Integers, Sequences, FiniteSets, TLC

VARIABLES
    mentors,  \* MentorMatcher.mentors: the dict id -> Mentor, in insertion order
    fellows,  \* the list of Fellow records handed to the matcher's methods
    call,     \* the last call made on the matcher: its name, arguments and return value
    now,      \* the clock datetime.now() reads, in ticks
    prev,     \* the value of an earlier call, kept by the caller to compare a re-run with
    router,   \* a ModelRouter: enable_cost_optimization and routing_stats
    batch,    \* one run of ExtendedThinkingReviewer.review_batch
    fellow,   \* a Fellow with its stipend and evaluations
    manager   \* a FellowManager: the fellows table and the files of its data directory

vars == <<mentors, fellows, call, now, prev, router, batch, fellow, manager>>

\* the objects beside the matcher, its mentors and its cohort
aside == <<router, batch, fellow, manager>>

(***************************************************************************)
(* Bounds of the model.                                                    *)
(***************************************************************************)
MaxLen == 2       \* longest label list of a generated fellow or mentor
MaxCap == 2       \* largest max_fellows, and longest current_fellows, generated
MaxMentors == 3   \* most mentors handed to the constructor
MaxFellows == 3   \* most fellows in a cohort
MaxTopK == 3      \* largest top_k passed to match_fellow
MaxTime == 1      \* last tick of the clock
MaxPast == 2      \* longest past_fellows a mentor is followed to
MaxRoutes == 2    \* most calls of route a router is followed for
MaxItems == 3     \* most items handed to review_batch
MaxConcurrent == 2  \* largest max_concurrent handed to review_batch

(***************************************************************************)
(* Generic helpers.                                                        *)
(***************************************************************************)
Range(s) == {s[i] : i \in DOMAIN s}

SeqsUpTo(S, n) == UNION {[1..k -> S] : k \in 0..n}

Min(a, b) == IF a <= b THEN a ELSE b

Max(a, b) == IF a >= b THEN a ELSE b

RECURSIVE Gcd(_, _)
Gcd(a, b) == IF b = 0 THEN a ELSE Gcd(b, a % b)

RECURSIVE LcmUpTo(_)
LcmUpTo(n) == IF n <= 1 THEN 1 ELSE LET l == LcmUpTo(n - 1) IN (l * n) \div Gcd(l, n)

\* One score point is Scale units.  A mentor's label set has at most
\* 2 * MaxLen labels (keywords and expertise areas together), so every ratio
\* k / n of the scorer, and the 2.5 of the career component, is a whole number
\* of units.
Scale == 2 * LcmUpTo(2 * MaxLen)

Pts(n) == n * Scale

(***************************************************************************)
(* Strings.  TLC's strings are atomic, so str.lower() and the substring    *)
(* test `a in b` are tabulated over the strings the model uses.            *)
(***************************************************************************)
\* str.lower(): the strings of the model that hold an upper-case letter.
LowerTable ==
    [s \in {"Memory", "fMRI", "Python", "Korean-Brain", "Princeton University",
            "Seoul National University", "Smith College", "MIT"} |->
        CASE s = "Memory" -> "memory"
          [] s = "fMRI" -> "fmri"
          [] s = "Python" -> "python"
          [] s = "Korean-Brain" -> "korean-brain"
          [] s = "Princeton University" -> "princeton university"
          [] s = "Seoul National University" -> "seoul national university"
          [] s = "Smith College" -> "smith college"
          [] s = "MIT" -> "mit"]

Lower(s) == IF s \in DOMAIN LowerTable THEN LowerTable[s] ELSE s

\* `sub in s` for the needles the scorer looks for.  The test is case
\* sensitive: "korea" is not in "Korean-Brain", and "mit" is in "smith college".
SubstringPairs ==
    {<<"korea", "korean-brain">>,
     <<"princeton", "princeton university">>,
     <<"mit", "smith college">>,
     <<"mit", "mit">>}

Contains(sub, s) == <<sub, s>> \in SubstringPairs

(***************************************************************************)
(* Records.                                                                *)
(***************************************************************************)
\* models.py Mentor: the fields the matcher reads.  expertise_areas holds the
\* `area` of each MentorExpertise, activities the `duration_hours` of each
\* MentorActivity.
Mentor(id, affiliation, expertise, keywords, maxFellows, current, korean, acts, active) ==
    [id |-> id, affiliation |-> affiliation, expertise_areas |-> expertise,
     research_keywords |-> keywords, max_fellows |-> maxFellows,
     current_fellows |-> current, past_fellows |-> <<>>,
     speaks_korean |-> korean, activities |-> acts, active |-> active]

\* fellow/models.py Fellow with its FellowApplication: research_interests holds
\* the `area` of each ResearchInterest, the three skill lists the `name` of each
\* TechnicalSkill.
Fellow(id, interests, programming, ml, neuro) ==
    [id |-> id, research_interests |-> interests, programming_skills |-> programming,
     ml_skills |-> ml, neuro_tools |-> neuro]

(***************************************************************************)
(* MentorMatcher.compute_compatibility.                                    *)
(***************************************************************************)
\* faulty variant of AvailableSlots: the difference is not cut off at 0
AvailableSlotsSigned(m) == m.max_fellows - Len(m.current_fellows)

\* Mentor.available_slots
AvailableSlots(m) == Max(0, m.max_fellows - Len(m.current_fellows))

\* faulty variant of FellowInterests: the areas are not lower-cased
FellowInterestsCaseSensitive(f) == Range(f.research_interests)

\* set(ri.area.lower() for ri in fellow.application.research_interests)
FellowInterests(f) == {Lower(x) : x \in Range(f.research_interests)}

\* set(kw.lower() for kw in mentor.research_keywords)
MentorKeywords(m) == {Lower(x) : x \in Range(m.research_keywords)}

\* set(e.area.lower() for e in mentor.expertise_areas)
MentorExpertise(m) == {Lower(x) : x \in Range(m.expertise_areas)}

\* faulty variant of MentorAll: the expertise areas are forgotten
MentorAllKeywordsOnly(m) == MentorKeywords(m)

\* mentor_all = mentor_keywords | mentor_expertise
MentorAll(m) == MentorKeywords(m) \cup MentorExpertise(m)

\* scores["interest_match"]
InterestMatch(f, m) ==
    IF MentorAll(m) # {}
    THEN (40 * Scale * Cardinality(FellowInterests(f) \cap MentorAll(m)))
             \div Cardinality(MentorAll(m))
    ELSE 0

\* faulty variant of FellowSkills: the neuro tools are forgotten
FellowSkillsNoTools(f) == {Lower(x) : x \in Range(f.programming_skills \o f.ml_skills)}

\* set(s.name.lower() for s in programming_skills + ml_skills + neuro_tools)
FellowSkills(f) ==
    {Lower(x) : x \in Range(f.programming_skills \o f.ml_skills \o f.neuro_tools)}

\* scores["skill_match"]
SkillMatch(f, m) ==
    IF MentorExpertise(m) # {}
    THEN (30 * Scale * Cardinality(FellowSkills(f) \cap MentorExpertise(m)))
             \div Cardinality(MentorExpertise(m))
    ELSE 0

\* faulty variant of AvailabilityScore: `>= 0` for `> 0`
AvailabilityScoreNonNegative(m) == IF AvailableSlots(m) >= 0 THEN Pts(15) ELSE 0

\* scores["availability"]
AvailabilityScore(m) == IF AvailableSlots(m) > 0 THEN Pts(15) ELSE 0

\* faulty variant of LanguageScore: the keyword is not lower-cased
LanguageScoreCaseSensitive(m) ==
    IF m.speaks_korean THEN Pts(10)
    ELSE IF \E kw \in Range(m.research_keywords) : Contains("korea", kw) THEN Pts(5)
    ELSE 0

\* scores["language"]
LanguageScore(m) ==
    IF m.speaks_korean THEN Pts(10)
    ELSE IF \E kw \in Range(m.research_keywords) : Contains("korea", Lower(kw)) THEN Pts(5)
    ELSE 0

prestigious_affiliations == {"princeton", "mit", "stanford", "harvard", "bnl"}

\* faulty variant of CareerScore: the affiliation is not lower-cased
CareerScoreCaseSensitive(m) ==
    IF \E aff \in prestigious_affiliations : Contains(aff, m.affiliation)
    THEN Pts(5)
    ELSE (5 * Scale) \div 2

\* scores["career"]
CareerScore(m) ==
    IF \E aff \in prestigious_affiliations : Contains(aff, Lower(m.affiliation))
    THEN Pts(5)
    ELSE (5 * Scale) \div 2

\* the dict `scores`
Scores(f, m) ==
    [interest_match |-> InterestMatch(f, m), skill_match |-> SkillMatch(f, m),
     availability |-> AvailabilityScore(m), language |-> LanguageScore(m),
     career |-> CareerScore(m)]

\* faulty variant of TotalScore: the career component is left out
TotalScoreNoCareer(scores) ==
    scores.interest_match + scores.skill_match + scores.availability + scores.language

\* total_score = sum(scores.values())
TotalScore(scores) ==
    scores.interest_match + scores.skill_match + scores.availability
        + scores.language + scores.career

\* the returned tuple (total_score, scores)
ComputeCompatibility(f, m) ==
    LET scores == Scores(f, m) IN [total |-> TotalScore(scores), scores |-> scores]

(***************************************************************************)
(* MentorMatcher.__init__ and match_fellow.                                *)
(***************************************************************************)
RECURSIVE DictFromList(_)
\* {m.id: m for m in mentors}: a key keeps the position of its first
\* occurrence and the value of its last.
DictFromList(list) ==
    IF list = <<>> THEN <<>>
    ELSE LET rest == DictFromList(SubSeq(list, 1, Len(list) - 1))
             m == list[Len(list)]
         IN IF \E i \in DOMAIN rest : rest[i].id = m.id
            THEN [i \in DOMAIN rest |-> IF rest[i].id = m.id THEN m ELSE rest[i]]
            ELSE Append(rest, m)

\* seq[:n] for n >= 0
Take(seq, n) == SubSeq(seq, 1, Min(Len(seq), n))

MATCHING_CAP == 5

\* fellow_interests & mentor_keywords
Matching(f, m) == FellowInterests(f) \cap MentorKeywords(m)

\* list(a_set): the iteration order of a set of strings is not fixed by the
\* language (it follows the strings' hashes), so any order may come out.
ListOfSet(S) == {s \in [1..Cardinality(S) -> S] : Range(s) = S}

\* faulty variant of MatchOfRanker: is_primary is left at the default of the
\* MentorMatch model, which is True
MatchOfRankerDefaultPrimary(f, m, matching) ==
    LET c == ComputeCompatibility(f, m) IN
    [fellow_id |-> f.id, mentor_id |-> m.id, compatibility_score |-> c.total,
     matching_expertise |-> Take(matching, MATCHING_CAP),
     matching_interests |-> Take(matching, MATCHING_CAP),
     expertise_match_score |-> c.scores.skill_match,
     interest_match_score |-> c.scores.interest_match,
     availability_score |-> c.scores.availability,
     language_score |-> c.scores.language,
     is_primary |-> TRUE, created_at |-> now]

\* MentorMatch as match_fellow builds it.  created_at is not passed, so the
\* model's default_factory datetime.now fills it in.  recommendation_notes is
\* left out: it is the score again, formatted.
MatchOfRanker(f, m, matching) ==
    LET c == ComputeCompatibility(f, m) IN
    [fellow_id |-> f.id, mentor_id |-> m.id, compatibility_score |-> c.total,
     matching_expertise |-> Take(matching, MATCHING_CAP),
     matching_interests |-> Take(matching, MATCHING_CAP),
     expertise_match_score |-> c.scores.skill_match,
     interest_match_score |-> c.scores.interest_match,
     availability_score |-> c.scores.availability,
     language_score |-> c.scores.language,
     is_primary |-> FALSE, created_at |-> now]

\* faulty variant of SortDescending: the list stays in the order of the dict
Unsorted(seq) == seq

RECURSIVE SortDescendingUnstable(_)
\* faulty variant of SortDescending: a record goes before the records of
\* equal score that were ahead of it
SortDescendingUnstable(seq) ==
    IF seq = <<>> THEN <<>>
    ELSE LET sorted == SortDescendingUnstable(SubSeq(seq, 1, Len(seq) - 1))
             x == seq[Len(seq)]
             p == Cardinality({i \in DOMAIN sorted :
                                 sorted[i].compatibility_score > x.compatibility_score})
         IN SubSeq(sorted, 1, p) \o <<x>> \o SubSeq(sorted, p + 1, Len(sorted))

RECURSIVE SortDescending(_)
\* matches.sort(key=lambda m: m.compatibility_score, reverse=True): a stable
\* sort, equal scores keep the order they had.
SortDescending(seq) ==
    IF seq = <<>> THEN <<>>
    ELSE LET sorted == SortDescending(SubSeq(seq, 1, Len(seq) - 1))
             x == seq[Len(seq)]
             p == Cardinality({i \in DOMAIN sorted :
                                 sorted[i].compatibility_score >= x.compatibility_score})
         IN SubSeq(sorted, 1, p) \o <<x>> \o SubSeq(sorted, p + 1, Len(sorted))

\* faulty variant of ActiveIndices: the active flag is not looked at
AllIndices(ms) == [i \in 1..Len(ms) |-> i]

\* the positions of self.mentors the loops keep: `if not mentor.active: continue`
ActiveIndices(ms) == SelectSeq([i \in 1..Len(ms) |-> i], LAMBDA i : ms[i].active)

\* match_fellow(fellow, top_k), given the order `order[i]` in which the set
\* fellow_interests & mentor_keywords of mentor i is listed.
MatchFellow(ms, f, k, order) ==
    LET act == ActiveIndices(ms)
        matches == [n \in 1..Len(act) |-> MatchOfRanker(f, ms[act[n]], order[act[n]])]
        sorted == SortDescending(matches)
        marked == IF sorted # <<>> THEN [sorted EXCEPT ![1].is_primary = TRUE] ELSE sorted
    IN Take(marked, k)

RECURSIVE Choices(_)
\* every sequence that takes its i-th element from the i-th set
Choices(sets) ==
    IF sets = <<>> THEN {<<>>}
    ELSE {Append(c, x) : c \in Choices(SubSeq(sets, 1, Len(sets) - 1)),
                         x \in sets[Len(sets)]}

\* the orders the matching lists of one match_fellow call can come out in
MatchingOrders(ms, f) ==
    Choices([i \in 1..Len(ms) |->
                IF ms[i].active THEN ListOfSet(Matching(f, ms[i])) ELSE {<<>>}])

\* every value match_fellow(fellow, top_k) can return
MatchFellowResults(ms, f, k) == {MatchFellow(ms, f, k, o) : o \in MatchingOrders(ms, f)}

(***************************************************************************)
(* MentorMatcher.match_all_fellows.                                        *)
(***************************************************************************)
\* the largest position of `fs` that is in `rows` and holds a fellow with this
\* id: a later `results[fellow.id] = match` overwrites an earlier one
LastRow(fs, rows, id) ==
    CHOOSE i \in rows : fs[i].id = id /\ \A k \in rows : fs[k].id = id => k <= i

\* ensure_unique=False: {f.id: match_fellow(f, 1)[0] for f in fellows
\* if match_fellow(f, 1)}, given what match_fellow returns for each fellow
\* (its two calls per fellow list the same sets and return the same value)
GreedyDict(fs, top) ==
    LET rows == {i \in DOMAIN fs : top[i] # <<>>} IN
    [id \in {fs[i].id : i \in rows} |-> top[LastRow(fs, rows, id)][1]]

\* faulty variant of MentorList: inactive mentors are kept
MentorListAll(ms) == ms

\* mentor_list = [m for m in self.mentors.values() if m.active]
MentorList(ms) == LET act == ActiveIndices(ms) IN [n \in 1..Len(act) |-> ms[act[n]]]

\* faulty variant of Cost: the score itself is minimised
CostIsScore(f, m) == ComputeCompatibility(f, m).total

\* cost_matrix[i, j] = 100 - score
Cost(f, m) == Pts(100) - ComputeCompatibility(f, m).total

\* the n_fellows x n_mentors matrix
CostMatrix(fs, ml) == [i \in 1..Len(fs) |-> [j \in 1..Len(ml) |-> Cost(fs[i], ml[j])]]

Injections(A, B) == {g \in [A -> B] : \A x, y \in A : x # y => g[x] # g[y]}

\* the sets of (row, column) pairs that use no row and no column twice and
\* cover min(n, m) pairs
Assignments(n, m) ==
    IF n <= m
    THEN {{<<i, g[i]>> : i \in 1..n} : g \in Injections(1..n, 1..m)}
    ELSE {{<<g[j], j>> : j \in 1..m} : g \in Injections(1..m, 1..n)}

RECURSIVE SumOver(_, _)
\* the sum of matrix[i][j] over the pairs of an assignment
SumOver(matrix, pairs) ==
    IF pairs = {} THEN 0
    ELSE LET p == CHOOSE q \in pairs : TRUE
         IN matrix[p[1]][p[2]] + SumOver(matrix, pairs \ {p})

\* scipy.optimize.linear_sum_assignment(cost_matrix): an assignment of
\* min(n, m) pairs of least total cost; which one among several of the same
\* cost is the library's choice.
LinearSumAssignment(cost, n, m) ==
    {a \in Assignments(n, m) :
        \A b \in Assignments(n, m) : SumOver(cost, a) <= SumOver(cost, b)}

\* MentorMatch as match_all_fellows builds it: the score is taken back from
\* the cost matrix, the breakdown from a second compute_compatibility call,
\* the two matching lists keep their default [].
MatchOfSolver(f, m, cost) ==
    LET c == ComputeCompatibility(f, m) IN
    [fellow_id |-> f.id, mentor_id |-> m.id, compatibility_score |-> Pts(100) - cost,
     matching_expertise |-> <<>>, matching_interests |-> <<>>,
     expertise_match_score |-> c.scores.skill_match,
     interest_match_score |-> c.scores.interest_match,
     availability_score |-> c.scores.availability,
     language_score |-> c.scores.language,
     is_primary |-> TRUE, created_at |-> now]

\* the dict built from the pairs (row_ind, col_ind) of one assignment
SolverDict(fs, ml, cost, a) ==
    LET rows == {p[1] : p \in a}
        col(i) == (CHOOSE p \in a : p[1] = i)[2]
    IN [id \in {fs[i].id : i \in rows} |->
           LET i == LastRow(fs, rows, id)
           IN MatchOfSolver(fs[i], ml[col(i)], cost[i][col(i)])]

\* faulty variant of MatchAllFellows: ensure_unique is ignored
MatchAllFellowsGreedyOnly(ms, fs, ensure_unique) ==
    {GreedyDict(fs, top) :
        top \in Choices([i \in 1..Len(fs) |-> MatchFellowResults(ms, fs[i], 1)])}

\* every value match_all_fellows(fellows, ensure_unique) can return
MatchAllFellows(ms, fs, ensure_unique) ==
    IF ~ensure_unique
    THEN {GreedyDict(fs, top) :
             top \in Choices([i \in 1..Len(fs) |-> MatchFellowResults(ms, fs[i], 1)])}
    ELSE LET ml == MentorList(ms)
             cost == CostMatrix(fs, ml)
         IN {SolverDict(fs, ml, cost, a) :
                a \in LinearSumAssignment(cost, Len(fs), Len(ml))}

(***************************************************************************)
(* MentorMatcher.get_mentor_workload.                                      *)
(***************************************************************************)
RECURSIVE SumSeq(_)
SumSeq(seq) == IF seq = <<>> THEN 0 ELSE seq[1] + SumSeq(Tail(seq))

\* Mentor.total_mentoring_hours
TotalMentoringHours(m) == SumSeq(m.activities)

\* the dict mentor_id -> workload (the mentor's name is left out)
GetMentorWorkload(ms) ==
    [id \in {ms[i].id : i \in DOMAIN ms} |->
        LET m == ms[CHOOSE i \in DOMAIN ms : ms[i].id = id]
        IN [current_fellows |-> Len(m.current_fellows), max_fellows |-> m.max_fellows,
            available_slots |-> AvailableSlots(m),
            total_hours |-> TotalMentoringHours(m)]]

(***************************************************************************)
(* The inputs: a mentor pool and a cohort drawn from two catalogues of     *)
(* records with unique ids (models.py: "Unique mentor ID", "Unique fellow  *)
(* ID").                                                                   *)
(***************************************************************************)
MentorCatalogue ==
    {Mentor("M001", "Princeton University", <<"fmri">>, <<"language-brain", "memory">>,
            2, <<>>, TRUE, <<>>, TRUE),
     Mentor("M002", "Seoul National University", <<"Memory">>, <<"Korean-Brain">>,
            1, <<"F2024-001">>, FALSE, <<2, 3>>, TRUE),
     Mentor("M003", "MIT", <<"fMRI", "python">>, <<"memory">>,
            1, <<"F2023-001", "F2023-002">>, FALSE, <<1>>, FALSE),
     Mentor("M004", "Smith College", <<>>, <<"language-brain">>,
            2, <<"F2024-002">>, FALSE, <<>>, TRUE),
     Mentor("M005", "MIT", <<>>, <<"language-brain">>,
            2, <<>>, FALSE, <<4>>, TRUE)}

FellowCatalogue ==
    <<Fellow("F2025-001", <<"language-brain">>, <<"python">>, <<>>, <<>>),
      Fellow("F2025-002", <<"Memory", "fMRI">>, <<"Python">>, <<>>, <<"fMRI">>),
      Fellow("F2025-003", <<"language-brain", "memory">>, <<"python">>, <<"memory">>, <<>>),
      Fellow("F2025-004", <<"fmri", "Korean-Brain">>, <<"python">>, <<>>, <<"fmri">>)>>

\* the lists of at most n distinct elements of S
DistinctSeqs(S, n) ==
    {s \in SeqsUpTo(S, n) : \A i, j \in DOMAIN s : i # j => s[i] # s[j]}

RECURSIVE Pick(_, _)
\* the elements of seq at the positions in S, in the order of seq
Pick(seq, S) ==
    IF seq = <<>> THEN <<>>
    ELSE LET rest == Pick(SubSeq(seq, 1, Len(seq) - 1), S)
         IN IF Len(seq) \in S THEN Append(rest, seq[Len(seq)]) ELSE rest

\* the cohorts of at most n fellows, in catalogue order: the order of a
\* cohort enters no result except through the solver's choice among
\* assignments of equal cost, which LinearSumAssignment leaves open
Cohorts(n) ==
    {Pick(FellowCatalogue, S) : S \in {T \in SUBSET DOMAIN FellowCatalogue : Cardinality(T) <= n}}

NoCall == [op |-> "none", args |-> <<>>, ret |-> <<>>]

\* no router, batch, fellow record or manager has been made
NoneAside == router = <<>> /\ batch = <<>> /\ fellow = <<>> /\ manager = <<>>

\* matcher = MentorMatcher(list), and a cohort
Init ==
    /\ \E list \in DistinctSeqs(MentorCatalogue, MaxMentors) : mentors = DictFromList(list)
    /\ fellows \in Cohorts(MaxFellows)
    /\ call = NoCall
    /\ now = 0
    /\ prev = NoCall
    /\ NoneAside

(***************************************************************************)
(* The calls.  No method of the matcher assigns to a mentor, to a fellow   *)
(* or to self.mentors.  `call` holds the value a call returned until the   *)
(* caller takes it; the caller then makes its next call.                   *)
(***************************************************************************)
ComputeCompatibilityCall ==
    /\ call = NoCall
    /\ \E i \in DOMAIN fellows, j \in DOMAIN mentors :
          call' = [op |-> "compute_compatibility", args |-> <<i, j>>,
                   ret |-> ComputeCompatibility(fellows[i], mentors[j])]
    /\ UNCHANGED <<mentors, fellows, now, prev, aside>>

MatchFellowCall ==
    /\ call = NoCall
    /\ \E i \in DOMAIN fellows, k \in 0..MaxTopK :
          \E r \in MatchFellowResults(mentors, fellows[i], k) :
              call' = [op |-> "match_fellow", args |-> <<i, k>>, ret |-> r]
    /\ UNCHANGED <<mentors, fellows, now, prev, aside>>

\* faulty variant of MatchAllFellowsCall: the pairs found are also entered
\* in the mentors' current_fellows
MatchAllFellowsCallAssigning ==
    /\ call = NoCall
    /\ \E u \in BOOLEAN :
          \E r \in MatchAllFellows(mentors, fellows, u) :
              /\ call' = [op |-> "match_all_fellows", args |-> <<u>>, ret |-> r]
              /\ mentors' =
                    [i \in DOMAIN mentors |->
                        [mentors[i] EXCEPT !.current_fellows =
                            @ \o SelectSeq([n \in DOMAIN fellows |-> fellows[n].id],
                                           LAMBDA id : id \in DOMAIN r
                                                       /\ r[id].mentor_id = mentors[i].id)]]
    /\ UNCHANGED <<fellows, now, prev, aside>>

MatchAllFellowsCall ==
    /\ call = NoCall
    /\ \E u \in BOOLEAN :
          \E r \in MatchAllFellows(mentors, fellows, u) :
              call' = [op |-> "match_all_fellows", args |-> <<u>>, ret |-> r]
    /\ UNCHANGED <<mentors, fellows, now, prev, aside>>

GetMentorWorkloadCall ==
    /\ call = NoCall
    /\ call' = [op |-> "get_mentor_workload", args |-> <<>>,
                ret |-> GetMentorWorkload(mentors)]
    /\ UNCHANGED <<mentors, fellows, now, prev, aside>>

\* the caller takes the returned value
Return ==
    /\ call # NoCall
    /\ call' = NoCall
    /\ UNCHANGED <<mentors, fellows, now, prev, aside>>

Next ==
    \/ ComputeCompatibilityCall
    \/ MatchFellowCall
    \/ MatchAllFellowsCall
    \/ GetMentorWorkloadCall
    \/ Return

Spec == Init /\ [][Next]_vars

(***************************************************************************)
(* Two runs of one matching call on the same matcher and cohort.  The      *)
(* caller keeps the first run's value, time may pass, and the call is made *)
(* again with the same arguments.  The second run may be a new process: a  *)
(* set of strings may then be listed in another order.  The solver is a    *)
(* fixed algorithm, so a re-run finds the same assignment.                 *)
(***************************************************************************)
\* the clock advances between calls
Tick ==
    /\ call = NoCall
    /\ now < MaxTime
    /\ now' = now + 1
    /\ UNCHANGED <<mentors, fellows, call, prev, aside>>

\* the caller keeps the value of the first run
Keep ==
    /\ call # NoCall
    /\ prev = NoCall
    /\ prev' = call
    /\ call' = NoCall
    /\ UNCHANGED <<mentors, fellows, now, aside>>

FirstRun ==
    /\ prev = NoCall
    /\ (MatchFellowCall \/ MatchAllFellowsCall)

RerunMatchFellow ==
    /\ call = NoCall
    /\ prev.op = "match_fellow"
    /\ \E r \in MatchFellowResults(mentors, fellows[prev.args[1]], prev.args[2]) :
          call' = [op |-> "match_fellow", args |-> prev.args, ret |-> r]
    /\ UNCHANGED <<mentors, fellows, now, prev, aside>>

RerunMatchAllFellows ==
    /\ call = NoCall
    /\ prev.op = "match_all_fellows"
    /\ \E r \in MatchAllFellows(mentors, fellows, prev.args[1]) :
          /\ DOMAIN r = DOMAIN prev.ret
          /\ \A id \in DOMAIN r : r[id].mentor_id = prev.ret[id].mentor_id
          /\ call' = [op |-> "match_all_fellows", args |-> prev.args, ret |-> r]
    /\ UNCHANGED <<mentors, fellows, now, prev, aside>>

\* the caller drops the value of the second run and may run again
Drop ==
    /\ call # NoCall
    /\ prev # NoCall
    /\ call' = NoCall
    /\ UNCHANGED <<mentors, fellows, now, prev, aside>>

NextRerun ==
    \/ FirstRun
    \/ Keep
    \/ Tick
    \/ RerunMatchFellow
    \/ RerunMatchAllFellows
    \/ Drop

SpecRerun == Init /\ [][NextRerun]_vars

(***************************************************************************)
(* The scorer alone, over generated profiles: one fellow and one mentor.   *)
(* Either the label lists vary and the mentor's other fields are fixed, or *)
(* the mentor's capacity, load, language, affiliation and keywords vary    *)
(* and the fellow comes from the catalogue.                                *)
(***************************************************************************)
InterestLabels == {"language-brain", "Memory", "fmri"}

KeywordLabels == {"language-brain", "memory", "Korean-Brain"}

ExpertiseLabels == {"fmri", "Memory"}

Affiliations == {"Princeton University", "Seoul National University", "Smith College", "MIT"}

CurrentIds == <<"F2024-001", "F2024-002", "F2024-003", "F2024-004">>

LabelProfiles ==
    {<<Fellow("F2025-001", fi, <<"Python">>, ml, nt),
       Mentor("M001", "Princeton University", ex, kw, 2, <<>>, TRUE, <<>>, TRUE)>> :
        fi \in SeqsUpTo(InterestLabels, MaxLen),
        ml \in {<<>>, <<"memory">>},
        nt \in {<<>>, <<"fMRI">>},
        ex \in SeqsUpTo(ExpertiseLabels, MaxLen),
        kw \in SeqsUpTo(KeywordLabels, MaxLen)}

CapacityProfiles ==
    {<<f, Mentor("M001", aff, <<"fmri">>, kw, cap, Take(CurrentIds, load), korean, <<>>, TRUE)>> :
        f \in Range(FellowCatalogue),
        aff \in Affiliations,
        kw \in SeqsUpTo(KeywordLabels, MaxLen),
        cap \in 0..MaxCap,
        load \in 0..MaxCap,
        korean \in BOOLEAN}

InitScore ==
    /\ \E p \in LabelProfiles \cup CapacityProfiles :
          /\ fellows = <<p[1]>>
          /\ mentors = DictFromList(<<p[2]>>)
    /\ call = NoCall
    /\ now = 0
    /\ prev = NoCall
    /\ NoneAside

NextScore ==
    \/ ComputeCompatibilityCall
    \/ Return

SpecScore == InitScore /\ [][NextScore]_vars

(***************************************************************************)
(* Mentor.assign_fellow and Mentor.remove_fellow, on one mentor.  The      *)
(* mentor starts with any capacity and any list of distinct current        *)
(* fellows no longer than the capacity, the two properties the methods     *)
(* themselves keep.                                                        *)
(***************************************************************************)
MenteeIds == {"F2024-001", "F2024-002", "F2024-003"}

\* faulty variant of AssignFellow: the capacity is not looked at
AssignFellowUnchecked(m, fellow_id) ==
    [mentor |-> IF fellow_id \in Range(m.current_fellows) THEN m
                ELSE [m EXCEPT !.current_fellows = Append(@, fellow_id)],
     ret |-> TRUE]

\* faulty variant of AssignFellow: the id is appended without the test
\* `fellow_id not in self.current_fellows`
AssignFellowAlwaysAppend(m, fellow_id) ==
    IF AvailableSlots(m) <= 0 THEN [mentor |-> m, ret |-> FALSE]
    ELSE [mentor |-> [m EXCEPT !.current_fellows = Append(@, fellow_id)], ret |-> TRUE]

\* Mentor.assign_fellow(fellow_id): the mentor afterwards and the value returned
AssignFellow(m, fellow_id) ==
    IF AvailableSlots(m) <= 0 THEN [mentor |-> m, ret |-> FALSE]
    ELSE [mentor |-> IF fellow_id \in Range(m.current_fellows) THEN m
                     ELSE [m EXCEPT !.current_fellows = Append(@, fellow_id)],
          ret |-> TRUE]

\* list.remove(x): the list without the first occurrence of x
RemoveFirst(seq, x) ==
    LET i == CHOOSE k \in DOMAIN seq : seq[k] = x /\ \A j \in 1..(k - 1) : seq[j] # x
    IN SubSeq(seq, 1, i - 1) \o SubSeq(seq, i + 1, Len(seq))

\* faulty variant of RemoveFellow: the fellow is not entered in past_fellows
RemoveFellowForgotten(m, fellow_id) ==
    IF fellow_id \in Range(m.current_fellows)
    THEN [m EXCEPT !.current_fellows = RemoveFirst(@, fellow_id)]
    ELSE m

\* Mentor.remove_fellow(fellow_id): the mentor afterwards
RemoveFellow(m, fellow_id) ==
    IF fellow_id \in Range(m.current_fellows)
    THEN [m EXCEPT !.current_fellows = RemoveFirst(@, fellow_id),
                   !.past_fellows = Append(@, fellow_id)]
    ELSE m

InitMentor ==
    /\ \E cap \in 0..MaxCap, active \in BOOLEAN :
        \E cur \in DistinctSeqs(MenteeIds, cap) :
          mentors = <<Mentor("M001", "Princeton University", <<"fmri">>, <<"memory">>,
                             cap, cur, TRUE, <<2, 3>>, active)>>
    /\ fellows = <<>>
    /\ call = NoCall
    /\ now = 0
    /\ prev = NoCall
    /\ NoneAside

AssignFellowCall ==
    /\ call = NoCall
    /\ \E j \in DOMAIN mentors, fellow_id \in MenteeIds :
          LET r == AssignFellow(mentors[j], fellow_id)
          IN /\ mentors' = [mentors EXCEPT ![j] = r.mentor]
             /\ call' = [op |-> "assign_fellow", args |-> <<j, fellow_id>>, ret |-> r.ret]
    /\ UNCHANGED <<fellows, now, prev, aside>>

\* past_fellows only grows; the mentor is followed while it is short
RemoveFellowCall ==
    /\ call = NoCall
    /\ \E j \in DOMAIN mentors, fellow_id \in MenteeIds :
          /\ Len(mentors[j].past_fellows) < MaxPast
          /\ mentors' = [mentors EXCEPT ![j] = RemoveFellow(mentors[j], fellow_id)]
          /\ call' = [op |-> "remove_fellow", args |-> <<j, fellow_id>>, ret |-> <<>>]
    /\ UNCHANGED <<fellows, now, prev, aside>>

NextMentor ==
    \/ AssignFellowCall
    \/ RemoveFellowCall
    \/ Return

SpecMentor == InitMentor /\ [][NextMentor]_vars

(***************************************************************************)
(* src/src/ai/llm/model_router.py: ModelRouter.route and                   *)
(* ModelRouter.estimate_complexity.  A content is kept as the two numbers  *)
(* estimate_complexity takes from it: the number of words of               *)
(* content.split() and the number of the nine complex_keywords that occur  *)
(* in content.lower().                                                     *)
(***************************************************************************)
TaskTypes ==
    {"paper_review", "code_generation", "literature_search", "data_analysis",
     "application_review", "report_generation", "email_draft", "summarization",
     "translation", "formatting", "research_planning", "methodology_design",
     "debugging"}

complexity_order == <<"low", "medium", "high", "expert">>

ROUTING_RULES ==
    [t \in TaskTypes |->
        CASE t = "paper_review" ->
               [low |-> "claude-sonnet-4", medium |-> "claude-opus-4", high |-> "claude-opus-4", expert |-> "claude-opus-4"]
          [] t = "code_generation" ->
               [low |-> "claude-sonnet-4", medium |-> "claude-sonnet-4", high |-> "claude-opus-4", expert |-> "claude-opus-4"]
          [] t = "literature_search" ->
               [low |-> "gemini-2.5-pro", medium |-> "gemini-2.5-pro", high |-> "gemini-2.5-pro", expert |-> "gemini-2.5-pro"]
          [] t = "data_analysis" ->
               [low |-> "gpt-4o", medium |-> "claude-sonnet-4", high |-> "claude-opus-4", expert |-> "gpt-5"]
          [] t = "application_review" ->
               [low |-> "claude-sonnet-4", medium |-> "claude-opus-4", high |-> "claude-opus-4", expert |-> "claude-opus-4"]
          [] t = "report_generation" ->
               [low |-> "gpt-4o", medium |-> "claude-sonnet-4", high |-> "claude-opus-4", expert |-> "claude-opus-4"]
          [] t = "email_draft" ->
               [low |-> "gpt-4o", medium |-> "claude-sonnet-4", high |-> "claude-sonnet-4", expert |-> "claude-sonnet-4"]
          [] t = "summarization" ->
               [low |-> "gpt-4o", medium |-> "gpt-4o", high |-> "claude-sonnet-4", expert |-> "claude-sonnet-4"]
          [] t = "translation" ->
               [low |-> "gpt-4o", medium |-> "gpt-4o", high |-> "claude-sonnet-4", expert |-> "claude-opus-4"]
          [] t = "formatting" ->
               [low |-> "gpt-4o", medium |-> "gpt-4o", high |-> "gpt-4o", expert |-> "claude-sonnet-4"]
          [] t = "research_planning" ->
               [low |-> "claude-sonnet-4", medium |-> "claude-opus-4", high |-> "claude-opus-4", expert |-> "gpt-5"]
          [] t = "methodology_design" ->
               [low |-> "claude-sonnet-4", medium |-> "claude-opus-4", high |-> "gpt-5", expert |-> "gpt-5"]
          [] t = "debugging" ->
               [low |-> "claude-sonnet-4", medium |-> "claude-sonnet-4", high |-> "claude-opus-4", expert |-> "claude-opus-4"]]

COST_OPTIMIZED ==
    [m \in {"claude-opus-4", "gpt-5", "claude-sonnet-4", "gemini-2.5-pro", "gpt-4o",
             "deepseek-r1"} |->
        CASE m \in {"claude-opus-4", "gpt-5", "deepseek-r1"} -> "deepseek-r1"
          [] m \in {"claude-sonnet-4", "gpt-4o"} -> "gpt-4o"
          [] m = "gemini-2.5-pro" -> "gemini-2.5-pro"]

LATENCY_OPTIMIZED ==
    [m \in {"claude-opus-4", "gpt-5", "claude-sonnet-4", "gemini-2.5-pro", "gpt-4o",
             "deepseek-r1"} |->
        IF m = "claude-opus-4" THEN "claude-sonnet-4" ELSE "gpt-4o"]

\* the task types route turns thinking on for
ThinkingTasks ==
    {"paper_review", "research_planning", "methodology_design", "application_review"}

\* faulty variant of Route: the latency branch swaps the model only
RouteLatencyKeepsThinking(enable_cost_optimization, task_type, complexity, cost_sensitive, latency_sensitive) ==
    LET base == ROUTING_RULES[task_type][complexity]
        thinking == complexity \in {"high", "expert"} /\ task_type \in ThinkingTasks
        budget == IF thinking THEN (IF complexity = "high" THEN 8000 ELSE 16000) ELSE 0
        saving == cost_sensitive /\ enable_cost_optimization
        cheap == IF saving THEN COST_OPTIMIZED[base] ELSE base
    IN [model |-> IF latency_sensitive THEN LATENCY_OPTIMIZED[cheap] ELSE cheap,
        enable_thinking |-> thinking,
        thinking_budget |-> IF saving THEN Min(budget, 4000) ELSE budget]

\* route(task_type, complexity, cost_sensitive, latency_sensitive): the tuple
\* (model, enable_thinking, thinking_budget)
Route(enable_cost_optimization, task_type, complexity, cost_sensitive, latency_sensitive) ==
    LET base == ROUTING_RULES[task_type][complexity]
        thinking == complexity \in {"high", "expert"} /\ task_type \in ThinkingTasks
        budget == IF thinking THEN (IF complexity = "high" THEN 8000 ELSE 16000) ELSE 0
        saving == cost_sensitive /\ enable_cost_optimization
        cheap == IF saving THEN COST_OPTIMIZED[base] ELSE base
        reduced == IF saving THEN Min(budget, 4000) ELSE budget
    IN [model |-> IF latency_sensitive THEN LATENCY_OPTIMIZED[cheap] ELSE cheap,
        enable_thinking |-> IF latency_sensitive THEN FALSE ELSE thinking,
        thinking_budget |-> IF latency_sensitive THEN 0 ELSE reduced]

\* self.routing_stats[model] = self.routing_stats.get(model, 0) + 1
Counted(stats, model) ==
    IF model \in DOMAIN stats THEN [stats EXCEPT ![model] = @ + 1]
    ELSE stats @@ (model :> 1)

\* the complexity the word count gives
BaseComplexity(words) ==
    IF words < 500 THEN "low"
    ELSE IF words < 2000 THEN "medium"
    ELSE IF words < 5000 THEN "high"
    ELSE "expert"

\* complexity_order.index(c)
IndexOf(c) == CHOOSE i \in DOMAIN complexity_order : complexity_order[i] = c

\* estimate_complexity(content, task_type)
EstimateComplexity(content, task_type) ==
    LET base == BaseComplexity(content.words)
        raised == IF task_type \in {"paper_review", "methodology_design"} /\ base = "low"
                  THEN "medium" ELSE base
        capped == IF task_type \in {"formatting", "translation"}
                     /\ raised \in {"high", "expert"}
                  THEN "medium" ELSE raised
    IN IF content.keywords >= 5 /\ capped # "expert"
       THEN complexity_order[Min(IndexOf(capped) + 1, 4)]
       ELSE capped

\* word counts on both sides of each limit of BaseComplexity
WordCounts == {0, 1, 499, 500, 1999, 2000, 4999, 5000}

\* the contents: one with no word holds no keyword; a word can hold several
Contents ==
    {c \in [words : WordCounts, keywords : 0..9] : c.words = 0 => c.keywords = 0}

\* the calls made on the router so far
Routed == LET RECURSIVE Sum(_)
              Sum(S) == IF S = {} THEN 0
                        ELSE LET m == CHOOSE x \in S : TRUE
                             IN router.routing_stats[m] + Sum(S \ {m})
          IN Sum(DOMAIN router.routing_stats)

\* ModelRouter(enable_cost_optimization=...)
InitRouter ==
    /\ router \in [enable_cost_optimization : BOOLEAN, routing_stats : {<<>>}]
    /\ mentors = <<>> /\ fellows = <<>> /\ now = 0 /\ prev = NoCall
    /\ batch = <<>> /\ fellow = <<>> /\ manager = <<>>
    /\ call = NoCall

\* routing_stats only grows; the router is followed for MaxRoutes calls
RouteCall ==
    /\ call = NoCall
    /\ Routed < MaxRoutes
    /\ \E task_type \in TaskTypes, complexity \in Range(complexity_order),
          cost_sensitive \in BOOLEAN, latency_sensitive \in BOOLEAN :
          LET r == Route(router.enable_cost_optimization, task_type, complexity,
                         cost_sensitive, latency_sensitive)
          IN /\ call' = [op |-> "route",
                         args |-> <<task_type, complexity, cost_sensitive, latency_sensitive>>,
                         ret |-> r]
             /\ router' = [router EXCEPT !.routing_stats = Counted(@, r.model)]
    /\ UNCHANGED <<mentors, fellows, now, prev, batch, fellow, manager>>

EstimateComplexityCall ==
    /\ call = NoCall
    /\ \E content \in Contents, task_type \in TaskTypes :
          call' = [op |-> "estimate_complexity", args |-> <<content, task_type>>,
                   ret |-> EstimateComplexity(content, task_type)]
    /\ UNCHANGED <<mentors, fellows, now, prev, aside>>

NextRouter ==
    \/ RouteCall
    \/ EstimateComplexityCall
    \/ Return

SpecRouter == InitRouter /\ [][NextRouter]_vars

(***************************************************************************)
(* src/src/ai/llm/extended_thinking.py: one run of                         *)
(* ExtendedThinkingReviewer.review_batch(items, review_type,               *)
(* max_concurrent).  gather starts one task per item, in the order of the  *)
(* items; each task enters `async with semaphore`, awaits self.review and  *)
(* leaves the semaphore, whether the review returns or raises.  The        *)
(* semaphore is asyncio's: a task that finds no slot waits in a FIFO       *)
(* queue, and a release hands the slot to the head of the queue.           *)
(***************************************************************************)
\* faulty variant of Enter: the review is awaited outside the semaphore
EnterUnguarded(b, i) == [b EXCEPT !.task[i] = "reviewing"]

\* task i reaches `async with semaphore`
Enter(b, i) ==
    IF b.value > 0
    THEN [b EXCEPT !.value = @ - 1, !.task[i] = "reviewing"]
    ELSE [b EXCEPT !.waiters = Append(@, i), !.task[i] = "waiting"]

\* task i leaves the semaphore with `outcome`: its review returned, or raised
Leave(b, i, outcome) ==
    IF b.waiters # <<>>
    THEN [b EXCEPT !.task[i] = outcome, !.task[Head(b.waiters)] = "reviewing",
                   !.waiters = Tail(@)]
    ELSE [b EXCEPT !.task[i] = outcome, !.value = @ + 1]

\* review_batch is called: semaphore = asyncio.Semaphore(max_concurrent) and
\* one task per item, none of which has run yet
InitBatch ==
    /\ \E n \in 0..MaxItems, max_concurrent \in 0..MaxConcurrent :
          batch = [max_concurrent |-> max_concurrent, value |-> max_concurrent,
                   waiters |-> <<>>, task |-> [i \in 1..n |-> "created"]]
    /\ mentors = <<>> /\ fellows = <<>> /\ now = 0 /\ prev = NoCall
    /\ router = <<>> /\ fellow = <<>> /\ manager = <<>>
    /\ call = NoCall

\* the event loop runs the tasks for the first time in the order of creation
StartTask ==
    /\ call = NoCall
    /\ \E i \in DOMAIN batch.task :
          /\ batch.task[i] = "created"
          /\ \A j \in 1..(i - 1) : batch.task[j] # "created"
          /\ batch' = Enter(batch, i)
    /\ UNCHANGED <<mentors, fellows, call, now, prev, router, fellow, manager>>

\* a review in progress returns or raises
FinishReview ==
    /\ call = NoCall
    /\ \E i \in DOMAIN batch.task, outcome \in {"reviewed", "raised"} :
          /\ batch.task[i] = "reviewing"
          /\ batch' = Leave(batch, i, outcome)
    /\ UNCHANGED <<mentors, fellows, call, now, prev, router, fellow, manager>>

\* gather has every result: review_batch returns one entry per item, the
\* review with its item_id or an error entry with item_id "unknown"
ReviewBatchReturn ==
    /\ call = NoCall
    /\ \A i \in DOMAIN batch.task : batch.task[i] \in {"reviewed", "raised"}
    /\ call' = [op |-> "review_batch", args |-> <<batch.max_concurrent>>,
                ret |-> [i \in DOMAIN batch.task |->
                            IF batch.task[i] = "reviewed" THEN i ELSE "unknown"]]
    /\ UNCHANGED <<mentors, fellows, now, prev, aside>>

NextBatch ==
    \/ StartTask
    \/ FinishReview
    \/ ReviewBatchReturn

\* the event loop runs every task that can run, and a review that was
\* started comes back, with a value or with an exception
SpecBatch == InitBatch /\ [][NextBatch]_vars /\ WF_vars(NextBatch)

(***************************************************************************)
(* src/src/core/fellow/models.py: FellowEvaluation.total_score,            *)
(* FellowEvaluation.stipend_recommendation and Fellow.add_evaluation.      *)
(* The five scores are numbers in 0..100 and the weights are the defaults. *)
(* total_score is a sum of float products, so it is kept as the exact sum  *)
(* in tenths together with the mark of a sum that the float arithmetic     *)
(* leaves just below the exact one: 95*0.40 + 93*0.20 + 95*0.20 + 56*0.10  *)
(* + 88*0.10 is 89.99999999999999 and not 90.0.                            *)
(***************************************************************************)
MaxEvals == 2     \* most evaluations added to one fellow

\* the default weights, in tenths
weights ==
    [research_progress |-> 4, publication |-> 2, participation |-> 2,
     collaboration |-> 1, initiative |-> 1]

Evaluation(r, p, q, c, i) ==
    [research_progress |-> r, publication_score |-> p, participation_score |-> q,
     collaboration_score |-> c, initiative_score |-> i]

\* the evaluations of the domain below whose float sum falls short of the
\* exact sum (for all the others the float sum is exact)
RoundedBelow ==
    {Evaluation(70, 45, 37, 43, 13), Evaluation(75, 83, 86, 26, 36),
     Evaluation(95, 93, 95, 56, 88)}

\* the evaluations a fellow is given
Evaluations ==
    {Evaluation(r, p, q, c, i) :
        r \in {0, 50, 100}, p \in {0, 100}, q \in {0, 100}, c \in {0, 100},
        i \in {0, 100}} \cup RoundedBelow

total_score(e) ==
    [tenths |-> e.research_progress * weights.research_progress
                + e.publication_score * weights.publication
                + e.participation_score * weights.participation
                + e.collaboration_score * weights.collaboration
                + e.initiative_score * weights.initiative,
     short |-> e \in RoundedBelow]

\* score >= t for a whole number t
AtLeast(score, t) ==
    \/ score.tenths > 10 * t
    \/ score.tenths = 10 * t /\ ~score.short

\* faulty variant of stipend_recommendation: the thresholds are exclusive
stipend_recommendation_exclusive(e) ==
    LET score == total_score(e) IN
    IF score.tenths > 900 THEN "excellence"
    ELSE IF score.tenths > 700 THEN "standard"
    ELSE IF score.tenths > 500 THEN "probation"
    ELSE "review_required"

stipend_recommendation(e) ==
    LET score == total_score(e) IN
    IF AtLeast(score, 90) THEN "excellence"
    ELSE IF AtLeast(score, 70) THEN "standard"
    ELSE IF AtLeast(score, 50) THEN "probation"
    ELSE "review_required"

add_evaluation(f, evaluation) ==
    LET rec == stipend_recommendation(evaluation) IN
    [f EXCEPT !.evaluations = Append(@, evaluation),
              !.monthly_stipend =
                  IF rec = "excellence" THEN 2500000
                  ELSE IF rec = "standard" THEN 2000000
                  ELSE IF rec = "probation" THEN 1500000
                  ELSE @]

\* a Fellow as constructed: no evaluation yet, the default stipend or another
\* one handed to the constructor.  initial_stipend remembers the stipend the
\* fellow was constructed with; the program does not read it.
InitFellow ==
    /\ \E stipend \in {2000000, 1000000} :
          fellow = [monthly_stipend |-> stipend, evaluations |-> <<>>,
                    initial_stipend |-> stipend]
    /\ mentors = <<>> /\ fellows = <<>> /\ now = 0 /\ prev = NoCall
    /\ router = <<>> /\ batch = <<>> /\ manager = <<>>
    /\ call = NoCall

AddEvaluationCall ==
    /\ call = NoCall
    /\ Len(fellow.evaluations) < MaxEvals
    /\ \E evaluation \in Evaluations :
          /\ fellow' = add_evaluation(fellow, evaluation)
          /\ call' = [op |-> "add_evaluation", args |-> <<evaluation>>, ret |-> <<>>]
    /\ UNCHANGED <<mentors, fellows, now, prev, router, batch, manager>>

NextFellow ==
    \/ AddEvaluationCall
    \/ Return

SpecFellow == InitFellow /\ [][NextFellow]_vars

(***************************************************************************)
(* src/src/core/fellow/manager.py: FellowManager, its fellows table as     *)
(* _load_fellows fills it, and accept_fellow.  A fellow id "F2025-002" is  *)
(* kept as the pair of its cohort and its number: the format               *)
(* f"F{cohort}-{fellow_num:03d}" gives different strings for different     *)
(* pairs.                                                                  *)
(***************************************************************************)
MaxFellowNum == 3  \* largest fellow number of an id

CohortYears == {2024, 2025}

\* the applications on disk that accept_fellow is called for
AppIds == {"APP-1", "APP-2"}

FellowIdOf(cohort, fellow_num) == [cohort |-> cohort, num |-> fellow_num]

FellowIdSpace == {FellowIdOf(c, n) : c \in CohortYears, n \in 1..MaxFellowNum}

\* the fellows of the table that belong to `cohort`
existing_fellows(table, cohort) == {id \in DOMAIN table : table[id].cohort = cohort}

\* the table after accept_fellow(app_id, cohort, ...), and the fellow returned
accept_fellow(table, app_id, cohort) ==
    LET fellow_num == Cardinality(existing_fellows(table, cohort)) + 1
        fellow_id == FellowIdOf(cohort, fellow_num)
        accepted == [id |-> fellow_id, cohort |-> cohort, application |-> app_id,
                     status |-> "accepted"]
    IN  [fellows |-> [id \in DOMAIN table \cup {fellow_id} |->
                         IF id = fellow_id THEN accepted ELSE table[id]],
         ret |-> accepted]

\* FellowManager(data_dir): the table holds the fellows whose files were
\* read; a file that fails to load is skipped, so any subset of the fellows
\* written before can be there
InitManager ==
    /\ \E loaded \in SUBSET FellowIdSpace :
          manager = [fellows |-> [id \in loaded |->
                       [id |-> id, cohort |-> id.cohort, application |-> "loaded",
                        status |-> "active"]]]
    /\ mentors = <<>> /\ fellows = <<>> /\ now = 0 /\ prev = NoCall
    /\ router = <<>> /\ batch = <<>> /\ fellow = <<>>
    /\ call = NoCall

AcceptFellowCall ==
    /\ call = NoCall
    /\ \E app_id \in AppIds, cohort \in CohortYears :
          /\ Cardinality(existing_fellows(manager.fellows, cohort)) < MaxFellowNum
          /\ LET r == accept_fellow(manager.fellows, app_id, cohort) IN
                /\ manager' = [manager EXCEPT !.fellows = r.fellows]
                /\ call' = [op |-> "accept_fellow", args |-> <<app_id, cohort>>,
                            ret |-> r.ret]
    /\ UNCHANGED <<mentors, fellows, now, prev, router, batch, fellow>>

NextManager ==
    \/ AcceptFellowCall
    \/ Return

SpecManager == InitManager /\ [][NextManager]_vars

(***************************************************************************)
(* What the properties below read off a state.                             *)
(***************************************************************************)
Computed == call.op = "compute_compatibility"

\* the fellow and the mentor of the compute_compatibility call, as label sets
CallFellow == fellows[call.args[1]]

CallMentor == mentors[call.args[2]]

InterestSet == {Lower(x) : x \in Range(CallFellow.research_interests)}

KeywordSet == {Lower(x) : x \in Range(CallMentor.research_keywords)}

ExpertiseSet == {Lower(x) : x \in Range(CallMentor.expertise_areas)}

SkillSet ==
    {Lower(x) : x \in Range(CallFellow.programming_skills)
                        \cup Range(CallFellow.ml_skills)
                        \cup Range(CallFellow.neuro_tools)}

Load == Len(CallMentor.current_fellows)

\* the Match records a matching call returned
ReturnedMatches ==
    IF call.op = "match_fellow" THEN Range(call.ret)
    ELSE IF call.op = "match_all_fellows" THEN {call.ret[id] : id \in DOMAIN call.ret}
    ELSE {}

MentorById(id) == mentors[CHOOSE i \in DOMAIN mentors : mentors[i].id = id]

ActiveSet == {i \in DOMAIN mentors : mentors[i].active}

DistinctFellowIds == \A i, j \in DOMAIN fellows : i # j => fellows[i].id # fellows[j].id

SolverCall == call.op = "match_all_fellows" /\ call.args[1]

RECURSIVE SumOfScores(_, _)
\* the sum of compatibility_score over the entries `ids` of a returned dict
SumOfScores(dict, ids) ==
    IF ids = {} THEN 0
    ELSE LET id == CHOOSE x \in ids : TRUE
         IN dict[id].compatibility_score + SumOfScores(dict, ids \ {id})

RECURSIVE PairingTotal(_, _)
\* the scorer's total over the pairs fellow i -> mentor g[i], i in `rows`
PairingTotal(g, rows) ==
    IF rows = {} THEN 0
    ELSE LET i == CHOOSE x \in rows : TRUE
         IN TotalScore(Scores(fellows[i], mentors[g[i]])) + PairingTotal(g, rows \ {i})

\* the one-to-one pairings of the cohort with the active mentors
Pairings == Injections(DOMAIN fellows, ActiveSet)

(***************************************************************************)
(* C1: in every matching mode no returned Match names a mentor that is     *)
(* inactive or full (len(current_fellows) >= max_fellows).                 *)
(* The code skips inactive mentors only: a full mentor is scored with      *)
(* availability 0 and can be returned.                                     *)
(***************************************************************************)
C1_NoInactiveOrFullTarget ==
    \A x \in ReturnedMatches :
        /\ MentorById(x.mentor_id).active
        /\ Len(MentorById(x.mentor_id).current_fellows) < MentorById(x.mentor_id).max_fellows

(***************************************************************************)
(* C2: match_all_fellows(ensure_unique=True), fellows with distinct ids,   *)
(* no more fellows than active mentors: no mentor is the mentor of two     *)
(* different fellows.                                                      *)
(***************************************************************************)
C2_InjectiveOnMentor ==
    (SolverCall /\ DistinctFellowIds /\ Len(fellows) <= Cardinality(ActiveSet)) =>
        \A a, b \in DOMAIN call.ret :
            a # b => call.ret[a].mentor_id # call.ret[b].mentor_id

\* the case: at least two fellows, and picking each fellow's best mentor on
\* its own would give two fellows the same mentor
C2_Witness ==
    /\ SolverCall /\ DistinctFellowIds
    /\ 2 <= Len(fellows) /\ Len(fellows) <= Cardinality(ActiveSet)
    /\ \E i, j \in DOMAIN fellows :
          /\ i # j
          /\ \E r \in MatchFellowResults(mentors, fellows[i], 1),
                q \in MatchFellowResults(mentors, fellows[j], 1) :
                r[1].mentor_id = q[1].mentor_id

(***************************************************************************)
(* C3: match_all_fellows(ensure_unique=True) returns exactly               *)
(* min(#fellows, #active mentors) Match records for fellows with distinct  *)
(* ids; when the two numbers are equal every fellow has a Match and every  *)
(* active mentor is used exactly once.                                     *)
(***************************************************************************)
C3_CountAndBijection ==
    (SolverCall /\ DistinctFellowIds) =>
        /\ Cardinality(DOMAIN call.ret) = Min(Len(fellows), Cardinality(ActiveSet))
        /\ \A id \in DOMAIN call.ret : call.ret[id].fellow_id = id
        /\ Len(fellows) = Cardinality(ActiveSet) =>
              /\ DOMAIN call.ret = {fellows[i].id : i \in DOMAIN fellows}
              /\ \A j \in ActiveSet :
                    Cardinality({id \in DOMAIN call.ret :
                                    call.ret[id].mentor_id = mentors[j].id}) = 1

\* the case: as many fellows as active mentors, at least two, and an
\* inactive mentor in the pool
C3_Witness ==
    /\ SolverCall /\ DistinctFellowIds
    /\ Len(fellows) = Cardinality(ActiveSet)
    /\ Len(fellows) >= 2
    /\ Cardinality(ActiveSet) < Len(mentors)
    /\ Cardinality(DOMAIN call.ret) = Len(fellows)

C5_TotalIsSumInRange ==
    Computed =>
        /\ call.ret.total = call.ret.scores.interest_match + call.ret.scores.skill_match
                              + call.ret.scores.availability + call.ret.scores.language
                              + call.ret.scores.career
        /\ 0 <= call.ret.total
        /\ call.ret.total <= Pts(100)

\* the case: a pair that scores the full 100
C5_Witness == Computed /\ call.ret.total = Pts(100)

(***************************************************************************)
(* C6: the concrete scenario: fellow interests {language-brain}; mentor    *)
(* keywords {language-brain, memory}, expertise {fmri}, capacity 2, load   *)
(* 0, speaks Korean, affiliation containing "Princeton"; no fellow skill   *)
(* equal to fmri.                                                          *)
(***************************************************************************)
C6_Scenario ==
    /\ Computed
    /\ InterestSet = {"language-brain"}
    /\ KeywordSet = {"language-brain", "memory"}
    /\ ExpertiseSet = {"fmri"}
    /\ CallMentor.max_fellows = 2
    /\ Load = 0
    /\ CallMentor.speaks_korean
    /\ Contains("princeton", Lower(CallMentor.affiliation))
    /\ "fmri" \notin SkillSet

\* as claimed: interest = 20, skill = 0, availability = 15, language = 10,
\* career = 5, total = 50
C6_AsClaimed ==
    C6_Scenario =>
        /\ call.ret.scores.interest_match = Pts(20)
        /\ call.ret.scores.skill_match = 0
        /\ call.ret.scores.availability = Pts(15)
        /\ call.ret.scores.language = Pts(10)
        /\ call.ret.scores.career = Pts(5)
        /\ call.ret.total = Pts(50)

\* as the code computes it: the mentor's label set has three labels, so
\* interest = 40 * 1/3 = 13 1/3 and total = 43 1/3; the rest is as claimed
C6_ScenarioScores ==
    C6_Scenario =>
        /\ 3 * call.ret.scores.interest_match = Pts(40)
        /\ call.ret.scores.skill_match = 0
        /\ call.ret.scores.availability = Pts(15)
        /\ call.ret.scores.language = Pts(10)
        /\ call.ret.scores.career = Pts(5)
        /\ 3 * call.ret.total = Pts(130)

(***************************************************************************)
(* C7: interest = 40 * |interests /\ (keywords \/ expertise)| /            *)
(* |keywords \/ expertise|, 0 when the mentor's label set is empty; so 40  *)
(* when that set is non-empty and contained in the fellow's interests.     *)
(***************************************************************************)
C7_InterestFormula ==
    Computed =>
        LET all == KeywordSet \cup ExpertiseSet
            interest == call.ret.scores.interest_match
        IN /\ all = {} => interest = 0
           /\ all # {} =>
                 interest * Cardinality(all) = Pts(40) * Cardinality(InterestSet \cap all)
           /\ (all # {} /\ all \subseteq InterestSet) => interest = Pts(40)

\* the case: a non-empty label set inside the fellow's interests, with an
\* expertise area that is not a keyword
C7_Witness ==
    /\ Computed
    /\ KeywordSet # {}
    /\ ExpertiseSet \ KeywordSet # {}
    /\ (KeywordSet \cup ExpertiseSet) \subseteq InterestSet
    /\ call.ret.scores.interest_match = Pts(40)

(***************************************************************************)
(* C8: skill = 30 * |skills /\ expertise| / |expertise| where skills is    *)
(* the union of the programming, ML and neuro-tool skill names; 0 when the *)
(* mentor has no expertise areas.                                          *)
(***************************************************************************)
C8_SkillFormula ==
    Computed =>
        LET skill == call.ret.scores.skill_match
        IN /\ ExpertiseSet = {} => skill = 0
           /\ ExpertiseSet # {} =>
                 skill * Cardinality(ExpertiseSet)
                     = Pts(30) * Cardinality(SkillSet \cap ExpertiseSet)

\* the case: two expertise areas, one matched by a neuro tool only
C8_Witness ==
    /\ Computed
    /\ Cardinality(ExpertiseSet) = 2
    /\ \E x \in Range(CallFellow.neuro_tools) :
          /\ Lower(x) \in ExpertiseSet
          /\ x \notin Range(CallFellow.programming_skills) \cup Range(CallFellow.ml_skills)
    /\ call.ret.scores.skill_match = Pts(15)

(***************************************************************************)
(* C9: availability is 0 when the load equals the capacity and 15 when it  *)
(* is below it, whatever the fellow and the other components.              *)
(***************************************************************************)
C9_Availability ==
    Computed =>
        /\ Load = CallMentor.max_fellows => call.ret.scores.availability = 0
        /\ Load < CallMentor.max_fellows => call.ret.scores.availability = Pts(15)

\* the case: a mentor with capacity that is full, the other components not 0
C9_Witness ==
    /\ Computed
    /\ CallMentor.max_fellows > 0
    /\ Load = CallMentor.max_fellows
    /\ call.ret.scores.availability = 0
    /\ call.ret.scores.interest_match > 0
    /\ call.ret.scores.language > 0

(***************************************************************************)
(* C10: language is 10 if the mentor speaks Korean; otherwise 5 if a       *)
(* research keyword contains "korea" in any letter case; otherwise 0.      *)
(***************************************************************************)
C10_Language ==
    Computed =>
        LET korea == \E kw \in Range(CallMentor.research_keywords) :
                         Contains("korea", Lower(kw))
            language == call.ret.scores.language
        IN /\ CallMentor.speaks_korean => language = Pts(10)
           /\ (~CallMentor.speaks_korean /\ korea) => language = Pts(5)
           /\ (~CallMentor.speaks_korean /\ ~korea) => language = 0

\* the case: a Korean-speaking mentor with a keyword that contains "korea"
C10_Witness ==
    /\ Computed
    /\ CallMentor.speaks_korean
    /\ \E kw \in Range(CallMentor.research_keywords) : Contains("korea", Lower(kw))
    /\ call.ret.scores.language = Pts(10)

(***************************************************************************)
(* C11: career is 5 when the mentor's affiliation, in any letter case,     *)
(* contains one of princeton, mit, stanford, harvard, bnl as a substring,  *)
(* and 2.5 otherwise; it takes no other value.                             *)
(***************************************************************************)
C11_Career ==
    Computed =>
        LET listed == \E aff \in {"princeton", "mit", "stanford", "harvard", "bnl"} :
                          Contains(aff, Lower(CallMentor.affiliation))
            career == call.ret.scores.career
        IN /\ listed => career = Pts(5)
           /\ ~listed => 2 * career = Pts(5)
           /\ career = Pts(5) \/ 2 * career = Pts(5)

\* the case: an affiliation that holds an entry in capitals, and one that
\* holds it inside another word
C11_Witness ==
    /\ Computed
    /\ CallMentor.affiliation \in {"MIT", "Smith College"}
    /\ call.ret.scores.career = Pts(5)
    /\ call.ret.scores.interest_match > 0

(***************************************************************************)
(* C12: match_fellow(fellow, top_k = k) returns min(k, number of eligible  *)
(* mentors) records, in order of non-increasing compatibility_score, and   *)
(* no eligible mentor left out scores more than the last record returned.  *)
(* The eligible mentors are those of the ranker's filter, active = true.   *)
(***************************************************************************)
RankerCall == call.op = "match_fellow"

\* the mentors of the returned records
ReturnedMentorIds == {x.mentor_id : x \in ReturnedMatches}

C13_PrimaryIsFirstAndBest ==
    (RankerCall /\ call.ret # <<>>) =>
        LET f == fellows[call.args[1]]
            ret == call.ret
        IN /\ ret[1].is_primary
           /\ \A x \in 2..Len(ret) : ~ret[x].is_primary
           /\ \A i \in ActiveSet :
                 ret[1].compatibility_score >= TotalScore(Scores(f, mentors[i]))
           /\ \E i \in ActiveSet :
                 /\ mentors[i].id = ret[1].mentor_id
                 /\ ret[1].compatibility_score = TotalScore(Scores(f, mentors[i]))

\* the case: three records, the primary one strictly the best, and its
\* mentor not the first of the dict
C13_Witness ==
    /\ RankerCall
    /\ Len(call.ret) = 3
    /\ call.ret[1].is_primary
    /\ call.ret[1].compatibility_score > call.ret[2].compatibility_score
    /\ call.ret[1].mentor_id # mentors[1].id

(***************************************************************************)
(* C14: two runs of match_fellow with the same k, or of match_all_fellows  *)
(* with the same ensure_unique, on the same fellows and mentors return the *)
(* same records in the same order, equal in every field, whenever the runs *)
(* happen.                                                                 *)
(***************************************************************************)
C14_Deterministic ==
    (call.op \in {"match_fellow", "match_all_fellows"}
        /\ prev.op = call.op /\ prev.args = call.args)
    => call.ret = prev.ret

(***************************************************************************)
(* C15: when the fellows outnumber the active mentors,                     *)
(* match_all_fellows(ensure_unique = True) returns one Match per active    *)
(* mentor and reports every fellow left without a Match.  The value the    *)
(* call returns is the dict fellow id -> Match alone, so a fellow it       *)
(* reports, matched or not, is one of its keys.  The pool with no active   *)
(* mentor is the case of C16.                                              *)
(***************************************************************************)
C15_UncoveredReported ==
    (SolverCall /\ DistinctFellowIds /\ ActiveSet # {}
        /\ Len(fellows) > Cardinality(ActiveSet)) =>
        /\ Cardinality(DOMAIN call.ret) = Cardinality(ActiveSet)
        /\ \A i \in DOMAIN fellows : fellows[i].id \in DOMAIN call.ret

(***************************************************************************)
(* C16: with no mentor, or with inactive mentors only, match_fellow        *)
(* returns the empty list and match_all_fellows the empty dict, in both    *)
(* modes and for every cohort.                                             *)
(***************************************************************************)
C16_NoActiveMentor ==
    ActiveSet = {} =>
        /\ RankerCall => call.ret = <<>>
        /\ call.op = "match_all_fellows" => DOMAIN call.ret = {}

\* the case: a pool that is not empty but inactive, asked for a fellow's best
\* mentors
C16_Witness ==
    /\ mentors # <<>>
    /\ ActiveSet = {}
    /\ RankerCall
    /\ call.args[2] > 0
    /\ call.ret = <<>>

(***************************************************************************)
(* C17: every Match of match_all_fellows(ensure_unique = True) has         *)
(* is_primary = true, a compatibility_score equal to the scorer's total    *)
(* for its pair, and carries the five components of the breakdown          *)
(* (interest, skill, availability, language, career), each equal to the    *)
(* scorer's.  MentorMatch has one field per component for the first four;  *)
(* career_score is the name a field for career would have.                 *)
(***************************************************************************)
BreakdownFields ==
    [interest_match |-> "interest_match_score", skill_match |-> "expertise_match_score",
     availability |-> "availability_score", language |-> "language_score",
     career |-> "career_score"]

FellowById(id) == fellows[CHOOSE i \in DOMAIN fellows : fellows[i].id = id]

C17_FullBreakdown ==
    (SolverCall /\ DistinctFellowIds) =>
        \A x \in ReturnedMatches :
            LET c == ComputeCompatibility(FellowById(x.fellow_id), MentorById(x.mentor_id))
            IN /\ x.is_primary
               /\ x.compatibility_score = c.total
               /\ \A k \in DOMAIN BreakdownFields :
                     /\ BreakdownFields[k] \in DOMAIN x
                     /\ x[BreakdownFields[k]] = c.scores[k]

(***************************************************************************)
(* C18: compute_compatibility, match_fellow, match_all_fellows and         *)
(* get_mentor_workload change no mentor (current_fellows, past_fellows,    *)
(* max_fellows, active, activities and the rest), no fellow, and not the   *)
(* matcher's table of mentors, in any sequence of calls.                   *)
(***************************************************************************)
C18_Frame == [][mentors' = mentors /\ fellows' = fellows]_vars

\* the case: a call that paired two fellows with mentors has returned
C18_Witness ==
    /\ call.op = "match_all_fellows"
    /\ Cardinality(DOMAIN call.ret) >= 2
    /\ \E i \in DOMAIN mentors : mentors[i].current_fellows = <<>>

(***************************************************************************)
(* C19: get_mentor_workload reports every mentor of the table, active or   *)
(* not, with available_slots = max(0, max_fellows - len(current_fellows)), *)
(* never negative, also for a load above the capacity, and with            *)
(* total_hours the sum of duration_hours over the mentor's activities.     *)
(***************************************************************************)
WorkloadCall == call.op = "get_mentor_workload"

C19_Workload ==
    WorkloadCall =>
        /\ DOMAIN call.ret = {mentors[i].id : i \in DOMAIN mentors}
        /\ \A i \in DOMAIN mentors :
              LET m == mentors[i]
                  w == call.ret[m.id]
                  free == m.max_fellows - Len(m.current_fellows)
              IN /\ w.available_slots >= 0
                 /\ free > 0 => w.available_slots = free
                 /\ free <= 0 => w.available_slots = 0
                 /\ w.total_hours = SumSeq(m.activities)

\* the case: the report holds an inactive mentor whose load is above the
\* capacity, and a mentor with two activities
C19_Witness ==
    /\ WorkloadCall
    /\ \E i \in DOMAIN mentors :
          /\ ~mentors[i].active
          /\ Len(mentors[i].current_fellows) > mentors[i].max_fellows
          /\ call.ret[mentors[i].id].available_slots = 0
    /\ \E i \in DOMAIN mentors :
          /\ Len(mentors[i].activities) = 2
          /\ call.ret[mentors[i].id].total_hours = 5

(***************************************************************************)
(* C20: the scorer reads its label lists as lower-cased sets.  Writing a   *)
(* fellow interest, a fellow skill, a mentor keyword or a mentor expertise *)
(* label in another letter case, or repeating a label of a list, changes   *)
(* no component of the result of compute_compatibility, nor its total.     *)
(***************************************************************************)
\* the spellings of a label in the model: the label and the strings that
\* differ from it in letter case only
Spellings ==
    LET all == DOMAIN LowerTable \cup {LowerTable[s] : s \in DOMAIN LowerTable}
    IN [x \in all |-> {y \in all : Lower(y) = Lower(x)}]

CaseForms(x) == IF x \in DOMAIN Spellings THEN Spellings[x] ELSE {x}

\* the lists one step from `list`: one label respelled, or one label
\* repeated, in any spelling, at the end
Relabelled(list) ==
    UNION {{[list EXCEPT ![i] = y] : y \in CaseForms(list[i]) \ {list[i]}}
           \cup {Append(list, y) : y \in CaseForms(list[i])} : i \in DOMAIN list}

\* the fellows and the mentors one step from f and from m
RelabelledFellows(f) ==
    {[f EXCEPT !.research_interests = l] : l \in Relabelled(f.research_interests)}
    \cup {[f EXCEPT !.programming_skills = l] : l \in Relabelled(f.programming_skills)}
    \cup {[f EXCEPT !.ml_skills = l] : l \in Relabelled(f.ml_skills)}
    \cup {[f EXCEPT !.neuro_tools = l] : l \in Relabelled(f.neuro_tools)}

RelabelledMentors(m) ==
    {[m EXCEPT !.research_keywords = l] : l \in Relabelled(m.research_keywords)}
    \cup {[m EXCEPT !.expertise_areas = l] : l \in Relabelled(m.expertise_areas)}

C20_CaseAndRepetition ==
    Computed =>
        /\ \A f \in RelabelledFellows(CallFellow) :
              ComputeCompatibility(f, CallMentor) = call.ret
        /\ \A m \in RelabelledMentors(CallMentor) :
              ComputeCompatibility(CallFellow, m) = call.ret

\* the case: an interest written in capitals that the mentor has in lower
\* case counts, and so does a skill; respelling either gives another fellow
C20_Witness ==
    /\ Computed
    /\ \E x \in Range(CallFellow.research_interests) :
          /\ x # Lower(x)
          /\ Lower(x) \in Range(CallMentor.research_keywords)
    /\ \E x \in Range(CallFellow.neuro_tools) :
          /\ x # Lower(x)
          /\ Lower(x) \in Range(CallMentor.expertise_areas)
    /\ \E i, j \in DOMAIN CallMentor.research_keywords :
          i # j /\ CallMentor.research_keywords[i] = CallMentor.research_keywords[j]
    /\ call.ret.scores.interest_match > 0
    /\ call.ret.scores.skill_match > 0
    /\ Cardinality(RelabelledFellows(CallFellow)) > 2

(***************************************************************************)
(* C21: every Match of match_fellow carries matching_interests with at     *)
(* most 5 entries, each a lower-cased label that is both a research        *)
(* interest of the fellow and a label of the mentor (a research keyword or *)
(* an expertise area, the set the interest score is computed against); if  *)
(* there are at most 5 such labels, matching_interests holds all of them.  *)
(***************************************************************************)
C21_MatchingInterests ==
    RankerCall =>
        \A x \in ReturnedMatches :
            LET f == fellows[call.args[1]]
                common == FellowInterests(f) \cap MentorAll(MentorById(x.mentor_id))
                listed == Range(x.matching_interests)
            IN /\ Len(x.matching_interests) <= 5
               /\ listed \subseteq common
               /\ Cardinality(common) <= 5 => listed = common

(***************************************************************************)
(* C22: a mentor that starts with a load within its capacity keeps it      *)
(* there under any sequence of assign_fellow and remove_fellow:            *)
(* 0 <= len(current_fellows) <= max_fellows, and available_slots is        *)
(* max_fellows - len(current_fellows).                                     *)
(***************************************************************************)
C22_LoadWithinCapacity ==
    \A j \in DOMAIN mentors :
        /\ 0 <= Len(mentors[j].current_fellows)
        /\ Len(mentors[j].current_fellows) <= mentors[j].max_fellows
        /\ AvailableSlots(mentors[j])
               = mentors[j].max_fellows - Len(mentors[j].current_fellows)

\* the case: an assignment that filled the last of two slots
C22_Witness ==
    /\ call.op = "assign_fellow"
    /\ call.ret
    /\ mentors[call.args[1]].max_fellows = 2
    /\ Len(mentors[call.args[1]].current_fellows) = 2
    /\ mentors[call.args[1]].current_fellows[2] = call.args[2]

(***************************************************************************)
(* C23: assign_fellow(f) returns False, and leaves current_fellows and     *)
(* past_fellows as they were, exactly when the mentor has no free slot at  *)
(* the call, also when f is one of its current fellows.  Otherwise it      *)
(* returns True and f is afterwards in current_fellows, once: an f that    *)
(* was there already is not added again, so a list without duplicates      *)
(* stays without duplicates.                                               *)
(***************************************************************************)
NoDuplicate(seq) == \A i, j \in DOMAIN seq : seq[i] = seq[j] => i = j

C23_AssignFellow ==
    [][(call = NoCall /\ call'.op = "assign_fellow") =>
          LET f == call'.args[2]
              before == mentors[call'.args[1]]
              after == mentors'[call'.args[1]]
              full == before.max_fellows <= Len(before.current_fellows)
          IN /\ call'.ret = ~full
             /\ full => /\ after.current_fellows = before.current_fellows
                         /\ after.past_fellows = before.past_fellows
             /\ ~full =>
                   /\ f \in Range(after.current_fellows)
                   /\ after.past_fellows = before.past_fellows
                   /\ after.current_fellows =
                         IF f \in Range(before.current_fellows)
                         THEN before.current_fellows
                         ELSE Append(before.current_fellows, f)
             /\ NoDuplicate(before.current_fellows) => NoDuplicate(after.current_fellows)]_vars

\* the case: a full mentor asked for one of its own current fellows refuses
C23_Witness ==
    /\ call.op = "assign_fellow"
    /\ ~call.ret
    /\ mentors[call.args[1]].max_fellows > 0
    /\ Len(mentors[call.args[1]].current_fellows) = mentors[call.args[1]].max_fellows
    /\ call.args[2] \in Range(mentors[call.args[1]].current_fellows)

Position(id) == CHOOSE i \in DOMAIN mentors : mentors[i].id = id

C25_TiesInSuppliedOrder ==
    RankerCall =>
        LET ret == call.ret
            f == fellows[call.args[1]]
            best == {i \in ActiveSet :
                        \A j \in ActiveSet : TotalScore(Scores(f, mentors[i]))
                                                 >= TotalScore(Scores(f, mentors[j]))}
        IN /\ \A x, y \in DOMAIN ret :
                 (x < y /\ ret[x].compatibility_score = ret[y].compatibility_score)
                     => Position(ret[x].mentor_id) < Position(ret[y].mentor_id)
           /\ ret # <<>> =>
                 /\ ret[1].is_primary
                 /\ Position(ret[1].mentor_id) \in best
                 /\ \A i \in best : Position(ret[1].mentor_id) <= i

\* the case: two mentors share the top score, and the one handed over first
\* is not the first by id
C25_Witness ==
    /\ RankerCall
    /\ Len(call.ret) >= 2
    /\ call.ret[1].compatibility_score = call.ret[2].compatibility_score
    /\ call.ret[1].mentor_id = "M005"
    /\ call.ret[2].mentor_id = "M004"
    /\ call.ret[1].is_primary
    /\ Len(mentors) = 3

(***************************************************************************)
(* C26: route returns thinking_budget = 0 whenever it returns              *)
(* enable_thinking = False, for every task type, complexity and flags; a   *)
(* call with latency_sensitive = True returns enable_thinking = False and  *)
(* thinking_budget = 0.                                                    *)
(***************************************************************************)
RouteReturned == call.op = "route"

C26_NoBudgetWithoutThinking ==
    RouteReturned =>
        /\ ~call.ret.enable_thinking => call.ret.thinking_budget = 0
        /\ call.args[4] => (~call.ret.enable_thinking /\ call.ret.thinking_budget = 0)

\* the case: a task that would think, asked for with latency_sensitive
C26_Witness ==
    /\ RouteReturned
    /\ call.args[1] = "paper_review"
    /\ call.args[2] = "expert"
    /\ call.args[4]
    /\ ~call.ret.enable_thinking
    /\ call.ret.thinking_budget = 0
    /\ Routed = 2

(***************************************************************************)
(* C27: estimate_complexity caps formatting and translation tasks at       *)
(* medium: for these two task types it returns neither high nor expert,    *)
(* whatever the number of words and of complexity keywords of the content. *)
(***************************************************************************)
C27_CappedAtMedium ==
    (call.op = "estimate_complexity" /\ call.args[2] \in {"formatting", "translation"})
        => call.ret \notin {"high", "expert"}

(***************************************************************************)
(* C28: review_batch never has more than max_concurrent calls of review in *)
(* progress at a time, for any number of items and any order in which the  *)
(* reviews come back, and the review of every item is eventually started.  *)
(* As claimed, for every max_concurrent; and for max_concurrent >= 1.      *)
(***************************************************************************)
InProgress == Cardinality({i \in DOMAIN batch.task : batch.task[i] = "reviewing"})

Started(i) == batch.task[i] \in {"reviewing", "reviewed", "raised"}

AllStarted == \A i \in DOMAIN batch.task : Started(i)

C28_AsClaimed == [](InProgress <= batch.max_concurrent) /\ <>AllStarted

C28_BoundedAndStarted ==
    /\ [](InProgress <= batch.max_concurrent)
    /\ (batch.max_concurrent >= 1) => <>AllStarted

\* the case: every slot is taken, one item waits for a slot and one task has
\* not run yet
C28_Witness ==
    /\ batch.max_concurrent >= 1
    /\ InProgress = batch.max_concurrent
    /\ batch.waiters # <<>>
    /\ \E i \in DOMAIN batch.task : batch.task[i] \in {"reviewed", "raised"}

(***************************************************************************)
(* C29: add_evaluation appends the evaluation and sets monthly_stipend to  *)
(* 2,500,000 / 2,000,000 / 1,500,000 when the evaluation's total_score is  *)
(* >= 90 / in [70,90) / in [50,70), and leaves it unchanged when the total *)
(* is below 50; so after any sequence of evaluations the stipend is the    *)
(* level of the most recent evaluation scoring >= 50, or the stipend the   *)
(* fellow started with if there is none.                                   *)
(***************************************************************************)
StipendLevel(e) ==
    LET score == total_score(e) IN
    IF AtLeast(score, 90) THEN 2500000
    ELSE IF AtLeast(score, 70) THEN 2000000
    ELSE 1500000

Scoring50 == {k \in DOMAIN fellow.evaluations : AtLeast(total_score(fellow.evaluations[k]), 50)}

LastScoring50 == CHOOSE k \in Scoring50 : \A j \in Scoring50 : j <= k

StipendOfLastScoring50 ==
    fellow.monthly_stipend =
        IF Scoring50 = {} THEN fellow.initial_stipend
        ELSE StipendLevel(fellow.evaluations[LastScoring50])

AddEvaluationStep ==
    call'.op = "add_evaluation" =>
        LET e == call'.args[1] IN
        /\ fellow'.evaluations = Append(fellow.evaluations, e)
        /\ fellow'.monthly_stipend =
               IF AtLeast(total_score(e), 50) THEN StipendLevel(e)
               ELSE fellow.monthly_stipend

C29_StipendFollowsEvaluations == []StipendOfLastScoring50 /\ [][AddEvaluationStep]_vars

\* the case: an evaluation of exactly 90 raised the stipend, and a later
\* one below 50 left it there
C29_Witness ==
    /\ call.op = "add_evaluation"
    /\ Len(fellow.evaluations) = 2
    /\ total_score(fellow.evaluations[1]) = [tenths |-> 900, short |-> FALSE]
    /\ ~AtLeast(total_score(fellow.evaluations[2]), 50)
    /\ fellow.initial_stipend = 1000000
    /\ fellow.monthly_stipend = 2500000

(***************************************************************************)
(* C30: accept_fellow never assigns an id already held by a fellow in the  *)
(* manager: whatever fellows were loaded and whatever calls came before,   *)
(* each call adds a new entry to the fellows table and leaves every        *)
(* existing fellow record as it was.                                       *)
(***************************************************************************)
C30_NeverOverwrites ==
    [][call'.op = "accept_fellow" =>
          /\ call'.ret.id \notin DOMAIN manager.fellows
          /\ DOMAIN manager'.fellows = DOMAIN manager.fellows \cup {call'.ret.id}
          /\ \A id \in DOMAIN manager.fellows :
                manager'.fellows[id] = manager.fellows[id]]_vars

====
